---- MODULE Spec2Model ----
(***************************************************************************)
(* Model of the oscilloscope drivers of oscope_scpi: MSOX3000 (MSOX3000.py)*)
(* and UXR, UXRxxx2A, UXRxxx4A (uxr.py).                                   *)
(*                                                                         *)
(* One driver object is modelled.  Its persistent state is the class it    *)
(* was constructed from and its default channel; the remaining variables   *)
(* record the last call: which method, its arguments, the events it caused *)
(* on the instrument link (in order), and how it ended (return value or    *)
(* exception).                                                             *)
(*                                                                         *)
(* Text that the code slices, joins or parses is a sequence of characters, *)
(* each character a one-character string.  A channel identifier is a       *)
(* one-character string.                                                   *)
(***************************************************************************)
EXTENDS Integers, Sequences, FiniteSets, TLC

VARIABLES model, channel, op, arg, statFlat, trace, ret, exc

vars == <<model, channel, op, arg, statFlat, trace, ret, exc>>

(***************************************************************************)
(* Bounds of the model.                                                    *)
(***************************************************************************)
\* longest channel list passed to an autoscale call
MaxChanList == 6

\* most 7-field groups in a statistics reply
MaxGroups == 2

(***************************************************************************)
(* Text literals.                                                          *)
(***************************************************************************)
AUToscaleText == <<"A","U","T","o","s","c","a","l","e"," ">>

PlacementText == <<"A","U","T","o","s","c","a","l","e",":","P","L","A","C","e","m","e","n","t",
                   " ","S","E","P","a","r","a","t","e">>

MenuText == <<"S","Y","S","T","e","m",":","M","E","N","U"," ","M","E","A","S","u","r","e">>

StatDisplayText == <<"M","E","A","S","u","r","e",":","S","T","A","T","i","s","t","i","c","s",":",
                     "D","I","S","P","l","a","y"," ","O","N">>

(***************************************************************************)
(* Values of Python.                                                       *)
(***************************************************************************)
None == [kind |-> "none"]

NoException == [type |-> "none", msg |-> <<>>]

ValueError(msg) == [type |-> "ValueError", msg |-> msg]

\* the channel values a caller passes: one identifier, or a list of them
Single(c) == [kind |-> "single", chan |-> c]

ChanList(cs) == [kind |-> "list", chans |-> cs]

(***************************************************************************)
(* The driver classes and their channel counts.                            *)
(***************************************************************************)
Models == {"MSOX3000", "UXR", "UXRxxx2A", "UXRxxx4A"}

UXRModels == {"UXR", "UXRxxx2A", "UXRxxx4A"}

maxChannel(m) ==
    CASE m = "MSOX3000" -> 4
      [] m = "UXR"      -> 2
      [] m = "UXRxxx4A" -> 4
      [] m = "UXRxxx2A" -> 2

\* the digit naming analog channel n
Digit(n) == <<"0","1","2","3","4","5","6","7","8","9">>[n + 1]

\* the identifiers the base driver accepts for a model
chanAllValidList(m) == {Digit(n) : n \in 1..maxChannel(m)}

\* the SCPI name of a channel
channelStr(chan) == <<"C","H","A","N">> \o <<chan>>

\* the identifiers callers pass: valid on all models, valid on 4-channel
\* models only, valid on none
Channels == {"1", "3", "9"}

RECURSIVE SeqsOfLen(_, _)
SeqsOfLen(S, n) ==
    IF n = 0 THEN {<<>>}
    ELSE {Append(s, x) : s \in SeqsOfLen(S, n - 1), x \in S}

SeqsUpTo(S, n) == UNION {SeqsOfLen(S, k) : k \in 0..n}

\* The entries of a list longer than the limit are never looked at, so such
\* lists are drawn from one valid and one invalid identifier.
OversizeEntries == {"1", "9"}

MaxAutoscaleChannels == 5

ChannelArgs ==
    {Single(c) : c \in Channels}
    \cup {ChanList(cs) : cs \in SeqsUpTo(Channels, MaxAutoscaleChannels)}
    \cup {ChanList(cs) : cs \in UNION {SeqsOfLen(OversizeEntries, k) :
                                        k \in (MaxAutoscaleChannels + 1)..MaxChanList}}

\* the channel parameter of an autoscale call; None is its default
AutoscaleArgs == {None} \cup ChannelArgs

(***************************************************************************)
(* The instrument link: an event per call of a base-driver primitive.      *)
(***************************************************************************)
_instWrite(cmd) == [ev |-> "_instWrite", cmd |-> cmd]

_measureStatisticsEvent == [ev |-> "_measureStatistics", cmd |-> <<>>]

(***************************************************************************)
(* setupAutoscaleOLD of MSOX3000, as a function of the default channel at  *)
(* entry and the argument: the default channel after the call, the events, *)
(* and the exception.                                                      *)
(***************************************************************************)
\* the argument is used for this call only and not stored
StoredChannelKept(chan0, a) == chan0

\* the default channel once the argument is stored
StoredChannel(chan0, a) == IF a # None THEN a ELSE chan0

\* "Make channel a list even if it is a single value"
MakeChanlist(c) == IF c.kind # "list" THEN <<c.chan>> ELSE c.chans

\* the limit is taken one too high
TooManyLax(chanlist) == Len(chanlist) > MaxAutoscaleChannels + 1

\* "chanlist cannot have more than 5 elements"
TooMany(chanlist) == Len(chanlist) > MaxAutoscaleChannels

\* index of the first entry of chanlist that is not valid, 0 when all are
RECURSIVE FirstInvalid(_, _, _)
FirstInvalid(m, chanlist, i) ==
    IF i > Len(chanlist) THEN 0
    ELSE IF chanlist[i] \notin chanAllValidList(m) THEN i
    ELSE FirstInvalid(m, chanlist, i + 1)

\* chanstr after the loop over chanlist[1..n]
RECURSIVE Chanstr(_, _)
Chanstr(chanlist, n) ==
    IF n = 0 THEN <<>>
    ELSE Chanstr(chanlist, n - 1) \o <<",">> \o channelStr(chanlist[n])

\* the leading separator is left in place
DropFirstKept(text) == text

\* text[1:]
DropFirst(text) == IF Len(text) = 0 THEN <<>> ELSE Tail(text)

AutoscaleCommand(chanlist) ==
    AUToscaleText \o DropFirst(Chanstr(chanlist, Len(chanlist)))

AutoscaleBody(m, chan0, a) ==
    LET c        == StoredChannel(chan0, a)
        chanlist == MakeChanlist(c)
        bad      == FirstInvalid(m, chanlist, 1)
    IN  IF TooMany(chanlist)
        THEN [channel |-> c, trace |-> <<>>, exc |-> ValueError(<<"TooMany">>)]
        ELSE IF bad # 0
        THEN [channel |-> c, trace |-> <<>>,
              exc |-> ValueError(<<"Invalid", chanlist[bad]>>)]
        ELSE [channel |-> c, trace |-> <<_instWrite(AutoscaleCommand(chanlist))>>,
              exc |-> NoException]

setupAutoscaleOLD ==
    /\ model = "MSOX3000"
    /\ \E a \in AutoscaleArgs :
         \E r \in {AutoscaleBody(model, channel, a)} :
             /\ op' = "setupAutoscaleOLD"
             /\ arg' = a
             /\ channel' = r.channel
             /\ trace' = r.trace
             /\ exc' = r.exc
             /\ ret' = None
    /\ statFlat' = <<>>
    /\ UNCHANGED model

(***************************************************************************)
(* Numbers.  A Python float is kept as a decimal m * 10^e in lowest form   *)
(* (m not a multiple of 10, and e = 0 when m = 0); a Python int is kept    *)
(* the same way, with e >= 0.                                              *)
(***************************************************************************)
RECURSIVE Normal(_, _, _)
Normal(t, m, e) ==
    IF m = 0 THEN [type |-> t, m |-> 0, e |-> 0]
    ELSE IF m % 10 = 0 THEN Normal(t, m \div 10, e + 1)
    ELSE [type |-> t, m |-> m, e |-> e]

Float(m, e) == Normal("float", m, e)

PyInt(m, e) == Normal("int", m, e)

\* Keysight.OverRange, the value an instrument sends for an invalid reading
OverRange == Float(99, 36)

(***************************************************************************)
(* setupAutoscale: the shared implementation of the base driver, and the   *)
(* UXR override that selects the placement first.                          *)
(***************************************************************************)
KeysightSetupAutoscale(m, chan0, a) == AutoscaleBody(m, chan0, a)

UXRSetupAutoscale(m, chan0, a) ==
    LET r == KeysightSetupAutoscale(m, chan0, a)
    IN  [r EXCEPT !.trace = <<_instWrite(PlacementText)>> \o r.trace]

setupAutoscale ==
    /\ \E a \in AutoscaleArgs :
         \E r \in {IF model \in UXRModels
                   THEN UXRSetupAutoscale(model, channel, a)
                   ELSE KeysightSetupAutoscale(model, channel, a)} :
             /\ op' = "setupAutoscale"
             /\ arg' = a
             /\ channel' = r.channel
             /\ trace' = r.trace
             /\ exc' = r.exc
             /\ ret' = None
    /\ statFlat' = <<>>
    /\ UNCHANGED model

(***************************************************************************)
(* measureDVMfreq of UXR.                                                  *)
(***************************************************************************)
DVMChannels == {None, Single("1"), Single("9")}

DVMTimeouts == {3, 10}

\* seconds to wait, in tenths
DVMWaits == {5}

DVMArgs == [channel : DVMChannels, timeout : DVMTimeouts, wait : DVMWaits]

\* the sentinel is returned for the default channel only
DVMfreqResultByChannel(m, chan0, a) ==
    IF a.channel = None THEN OverRange ELSE Float(0, 0)

DVMfreqResult(m, chan0, a) == OverRange

measureDVMfreq ==
    /\ model \in UXRModels
    /\ \E a \in DVMArgs :
         /\ op' = "measureDVMfreq"
         /\ arg' = a
         /\ ret' = DVMfreqResult(model, channel, a)
         /\ trace' = <<>>
         /\ exc' = NoException
    /\ statFlat' = <<>>
    /\ UNCHANGED <<model, channel>>

(***************************************************************************)
(* Conversion of text to numbers: float(text) and int(text) of Python for  *)
(* decimal literals (surrounding whitespace, a sign, digits, a point, an   *)
(* exponent).  The result is [ok |-> FALSE] where Python raises ValueError.*)
(***************************************************************************)
IsSpace(c) == c \in {" ", "\n", "\r", "\t"}

IsDigit(c) == c \in {"0","1","2","3","4","5","6","7","8","9"}

DigitVal(c) == CHOOSE n \in 0..9 : Digit(n) = c

RECURSIVE StripLeft(_)
StripLeft(s) ==
    IF Len(s) > 0 /\ IsSpace(s[1]) THEN StripLeft(Tail(s)) ELSE s

RECURSIVE StripRight(_)
StripRight(s) ==
    IF Len(s) > 0 /\ IsSpace(s[Len(s)]) THEN StripRight(SubSeq(s, 1, Len(s) - 1)) ELSE s

Strip(s) == StripRight(StripLeft(s))

\* the index after the run of digits of s that starts at i
RECURSIVE ScanDigits(_, _)
ScanDigits(s, i) ==
    IF i <= Len(s) /\ IsDigit(s[i]) THEN ScanDigits(s, i + 1) ELSE i

\* the number written by the digits s[i..j-1], after the digits acc
RECURSIVE DigitsValue(_, _, _, _)
DigitsValue(s, i, j, acc) ==
    IF i >= j THEN acc ELSE DigitsValue(s, i + 1, j, 10 * acc + DigitVal(s[i]))

HasSign(s, i) == i <= Len(s) /\ s[i] \in {"+", "-"}

SignAt(s, i) == IF i <= Len(s) /\ s[i] = "-" THEN -1 ELSE 1

ParseFloat(text) ==
    LET s      == Strip(text)
        p1     == IF HasSign(s, 1) THEN 2 ELSE 1
        p2     == ScanDigits(s, p1)
        hasDot == p2 <= Len(s) /\ s[p2] = "."
        p3     == IF hasDot THEN p2 + 1 ELSE p2
        p4     == ScanDigits(s, p3)
        hasExp == p4 <= Len(s) /\ s[p4] \in {"e", "E"}
        p5     == p4 + 1
        p6     == IF HasSign(s, p5) THEN p5 + 1 ELSE p5
        p7     == ScanDigits(s, p6)
        end    == IF hasExp THEN p7 ELSE p4
        mant   == DigitsValue(s, p3, p4, DigitsValue(s, p1, p2, 0))
        expo   == IF hasExp THEN SignAt(s, p5) * DigitsValue(s, p6, p7, 0) ELSE 0
    IN  IF /\ (p2 - p1) + (p4 - p3) >= 1
           /\ (hasExp => p7 > p6)
           /\ end = Len(s) + 1
        THEN [ok |-> TRUE, val |-> Float(SignAt(s, 1) * mant, expo - (p4 - p3))]
        ELSE [ok |-> FALSE]

ParseInt(text) ==
    LET s  == Strip(text)
        p1 == IF HasSign(s, 1) THEN 2 ELSE 1
        p2 == ScanDigits(s, p1)
    IN  IF p2 > p1 /\ p2 = Len(s) + 1
        THEN [ok |-> TRUE, val |-> PyInt(SignAt(s, 1) * DigitsValue(s, p1, p2, 0), 0)]
        ELSE [ok |-> FALSE]

RECURSIVE Pow10(_)
Pow10(n) == IF n = 0 THEN 1 ELSE 10 * Pow10(n - 1)

Abs(n) == IF n < 0 THEN -n ELSE n

Sgn(n) == IF n < 0 THEN -1 ELSE IF n > 0 THEN 1 ELSE 0

\* int(f) of a float: the fraction is cut off, toward zero
IntOfFloat(f) ==
    IF f.e >= 0 THEN PyInt(f.m, f.e)
    ELSE IF -f.e > 9 THEN PyInt(0, 0)
    ELSE PyInt(Sgn(f.m) * (Abs(f.m) \div Pow10(-f.e)), 0)

(***************************************************************************)
(* measureStatistics of MSOX3000 and of UXR.                               *)
(***************************************************************************)
IndexError == [type |-> "IndexError", msg |-> <<>>]

\* the reply is requested before the statistics window is displayed
StatisticsTraceLate(m) ==
    IF m = "MSOX3000"
    THEN <<_measureStatisticsEvent, _instWrite(MenuText), _instWrite(StatDisplayText)>>
    ELSE <<_measureStatisticsEvent>>

\* the events before the reply is parsed
StatisticsTrace(m) ==
    IF m = "MSOX3000"
    THEN <<_instWrite(MenuText), _instWrite(StatDisplayText), _measureStatisticsEvent>>
    ELSE <<_measureStatisticsEvent>>

\* a short trailing group is left out
StatMatWhole(flat) ==
    [r \in 1..(Len(flat) \div 7) |-> SubSeq(flat, 7 * (r - 1) + 1, 7 * r)]

\* [flat[i:i+7] for i in range(0, len(flat), 7)]
StatMat(flat) ==
    [r \in 1..((Len(flat) + 6) \div 7) |->
        SubSeq(flat, 7 * (r - 1) + 1, IF 7 * r < Len(flat) THEN 7 * r ELSE Len(flat))]

\* the count is converted without the cast to float on every model
CountOfPlain(m, text) == ParseInt(text)

\* the conversion of stat[6]
CountOf(m, text) ==
    IF m = "MSOX3000" THEN ParseInt(text)
    ELSE LET f == ParseFloat(text)
         IN  IF f.ok THEN [ok |-> TRUE, val |-> IntOfFloat(f.val)] ELSE f

\* the conversion of stat[k], k = 1..6 (stat[0] is the label)
FieldOf(m, stat, k) == IF k = 6 THEN CountOf(m, stat[k + 1]) ELSE ParseFloat(stat[k + 1])

\* the exception raised while the dictionary of stat is built from field k on
RECURSIVE RowError(_, _, _)
RowError(m, stat, k) ==
    IF k > 6 THEN NoException
    ELSE IF Len(stat) < k + 1 THEN IndexError
    ELSE IF ~FieldOf(m, stat, k).ok THEN ValueError(stat[k + 1])
    ELSE RowError(m, stat, k + 1)

\* MIN and MAX are taken from each other's field
RowDictSwapped(m, stat) ==
    [label |-> stat[1],
     CURR  |-> FieldOf(m, stat, 1).val,
     MIN   |-> FieldOf(m, stat, 3).val,
     MAX   |-> FieldOf(m, stat, 2).val,
     MEAN  |-> FieldOf(m, stat, 4).val,
     STDD  |-> FieldOf(m, stat, 5).val,
     COUN  |-> FieldOf(m, stat, 6).val]

RowDict(m, stat) ==
    [label |-> stat[1],
     CURR  |-> FieldOf(m, stat, 1).val,
     MIN   |-> FieldOf(m, stat, 2).val,
     MAX   |-> FieldOf(m, stat, 3).val,
     MEAN  |-> FieldOf(m, stat, 4).val,
     STDD  |-> FieldOf(m, stat, 5).val,
     COUN  |-> FieldOf(m, stat, 6).val]

PyList(items) == [type |-> "list", items |-> items]

\* the loop over statMat from row r on, stats holding the rows before
RECURSIVE StatsLoop(_, _, _, _)
StatsLoop(m, statMat, r, stats) ==
    IF r > Len(statMat) THEN [exc |-> NoException, ret |-> PyList(stats)]
    ELSE LET e == RowError(m, statMat[r], 1)
         IN  IF e # NoException THEN [exc |-> e, ret |-> None]
             ELSE StatsLoop(m, statMat, r + 1, Append(stats, RowDict(m, statMat[r])))

StatisticsResult(m, flat) == StatsLoop(m, StatMat(flat), 1, <<>>)

(***************************************************************************)
(* The replies of the instrument: up to MaxGroups groups of 7 fields, the  *)
(* last fields possibly missing.                                           *)
(***************************************************************************)
T_Vavg == <<"V","a","v","g">>
T_Freq == <<"F","r","e","q">>
T_Vpp  == <<"V","p","p">>
T_1p0  == <<"1",".","0">>
T_0p5  == <<"0",".","5">>
T_1p5  == <<"1",".","5">>
T_0p01 == <<"0",".","0","1">>
T_100  == <<"1","0","0">>
T_100p0 == <<"1","0","0",".","0">>
T_1E3  == <<"+","1",".","0","E","+","3">>
T_Over == <<"9",".","9","E","+","3","7">>
T_m25  == <<"-","2",".","5","e","-","1">>
T_p5   == <<".","5">>
T_2p   == <<"2",".">>
T_3    == <<"3">>
T_m0   == <<"-","0">>
T_s0p5 == <<" ","0",".","5">>
T_7nl  == <<"7","\n">>
T_abc  == <<"a","b","c">>
T_12a  == <<"1","2","a">>

\* the example of a reply given for the statistics window
GroupPlain == <<T_Vavg, T_1p0, T_0p5, T_1p5, T_1p0, T_0p01, T_100>>

\* instrument number format, count written as a float
GroupFloatCount == <<T_Freq, T_1E3, T_Over, T_m25, T_p5, T_2p, T_100p0>>

\* the end of a reply line
GroupNewline == <<T_Vpp, T_3, T_m0, T_s0p5, T_1p5, T_0p01, T_7nl>>

\* text that is no number where MIN is expected
GroupBadMin == <<T_Vavg, T_1p0, T_abc, T_1p5, T_1p0, T_0p01, T_100>>

\* text that is no number where the count is expected
GroupBadCount == <<T_Freq, T_1p0, T_0p5, T_1p5, T_1p0, T_0p01, T_12a>>

\* a count that is a number but not a whole one
GroupFractionCount == <<T_Vpp, T_0p5, T_0p5, T_1p5, T_1p0, T_0p01, T_1p5>>

Groups == {GroupPlain, GroupFloatCount, GroupNewline, GroupBadMin, GroupBadCount,
           GroupFractionCount}

RECURSIVE Flatten(_)
Flatten(gs) == IF Len(gs) = 0 THEN <<>> ELSE gs[1] \o Flatten(Tail(gs))

Replies ==
    {SubSeq(Flatten(gs), 1, Len(Flatten(gs)) - cut) :
        gs \in SeqsUpTo(Groups, MaxGroups) \ {<<>>}, cut \in 0..6}
    \cup {<<>>}

\* the outcome of the call on each model for each reply, tabulated once
StatisticsCalls ==
    [m \in Models |->
        {[flat |-> flat, out |-> StatisticsResult(m, flat)] : flat \in Replies}]

measureStatistics ==
    /\ \E call \in StatisticsCalls[model] :
         /\ op' = "measureStatistics"
         /\ arg' = None
         /\ statFlat' = call.flat
         /\ trace' = StatisticsTrace(model)
         /\ ret' = call.out.ret
         /\ exc' = call.out.exc
    /\ UNCHANGED <<model, channel>>

(***************************************************************************)
(* polishOLD of MSOX3000.                                                  *)
(***************************************************************************)
\* the number of decimal digits of n > 0
RECURSIVE NumDigits(_)
NumDigits(n) == IF n < 10 THEN 1 ELSE 1 + NumDigits(n \div 10)

\* a >= b for positive floats in lowest form
GePositive(a, b) ==
    LET da == NumDigits(a.m)
        db == NumDigits(b.m)
    IN  IF da + a.e # db + b.e THEN da + a.e > db + b.e
        ELSE IF da >= db THEN a.m >= b.m * Pow10(da - db)
        ELSE a.m * Pow10(db - da) >= b.m

\* a >= b of Python floats
Ge(a, b) ==
    IF Sgn(a.m) # Sgn(b.m) THEN Sgn(a.m) > Sgn(b.m)
    ELSE IF Sgn(a.m) = 0 THEN TRUE
    ELSE IF Sgn(a.m) > 0 THEN GePositive(a, b)
    ELSE GePositive([b EXCEPT !.m = -b.m], [a EXCEPT !.m = -a.m])

PyStr(s) == [type |-> "str", s |-> s]

\* the display string for a reading that is out of range
Sentinel == PyStr(<<"-","-","-","-","-","-">>)

\* Quantity(value, units) of QuantiPhy; units "" when none are given
Quantity(value, units) == [type |-> "Quantity", value |-> value, units |-> units]

\* the units of the measurements in the table of the base driver
MeasureUnits == [Frequency |-> "Hz", Period |-> "s"]

KeyErrorOf(measure) == measure = None \/ measure.name \notin DOMAIN MeasureUnits

measureTblUnits(measure) == MeasureUnits[measure.name]

\* the threshold itself is not taken as out of range
PolishResultStrict(value, measure) ==
    IF ~Ge(OverRange, value) THEN Sentinel
    ELSE IF ~KeyErrorOf(measure) THEN Quantity(value, measureTblUnits(measure))
    ELSE Quantity(value, "")

PolishResult(value, measure) ==
    IF Ge(value, OverRange) THEN Sentinel
    ELSE IF ~KeyErrorOf(measure) THEN Quantity(value, measureTblUnits(measure))
    ELSE Quantity(value, "")

Name(n) == [kind |-> "str", name |-> n]

PolishMeasures == {None, Name("Frequency"), Name("Period"), Name("Bogus")}

\* readings below Keysight.OverRange
BelowValues ==
    {Float(0, 0), Float(15, -1), Float(-25, -1), Float(1, -3), Float(989, 35),
     Float(99, 35), Float(1, 37), Float(98999, 33), Float(-99, 36), Float(-1, 38)}

\* readings at or above Keysight.OverRange
AtOrAboveValues ==
    {Float(99, 36), Float(991, 35), Float(1, 38), Float(99, 37), Float(99001, 33)}

PolishValues == BelowValues \cup AtOrAboveValues

polishOLD ==
    /\ model = "MSOX3000"
    /\ \E value \in PolishValues, measure \in PolishMeasures :
         /\ op' = "polishOLD"
         /\ arg' = [value |-> value, measure |-> measure]
         /\ ret' = PolishResult(value, measure)
         /\ trace' = <<>>
         /\ exc' = NoException
    /\ statFlat' = <<>>
    /\ UNCHANGED <<model, channel>>

(***************************************************************************)
(* The driver after construction, and its calls.                           *)
(***************************************************************************)
Init ==
    /\ model \in Models
    /\ channel = Single("1")
    /\ op = "init"
    /\ arg = None
    /\ statFlat = <<>>
    /\ trace = <<>>
    /\ ret = None
    /\ exc = NoException

NextAuto == setupAutoscaleOLD \/ setupAutoscale \/ measureDVMfreq

SpecAuto == Init /\ [][NextAuto]_vars

NextMeas == measureStatistics \/ polishOLD

SpecMeas == Init /\ [][NextMeas]_vars

(***************************************************************************)
(* Properties of the autoscale calls.                                      *)
(***************************************************************************)
\* the names joined by single commas, first to last
RECURSIVE JoinComma(_)
JoinComma(names) ==
    IF Len(names) = 0 THEN <<>>
    ELSE IF Len(names) = 1 THEN names[1]
    ELSE names[1] \o <<",">> \o JoinComma(Tail(names))

ChannelNames(chanlist) == [i \in 1..Len(chanlist) |-> channelStr(chanlist[i])]

\* the entries of a channel value, one for a single identifier
Entries(c) == IF c.kind = "list" THEN c.chans ELSE <<c.chan>>

AllValid(m, c) == \A i \in 1..Len(Entries(c)) : Entries(c)[i] \in chanAllValidList(m)

\* C1: a setupAutoscaleOLD call whose argument is one valid channel, or a
\* list of at most 5 valid channels, sends exactly one command: 'AUToscale '
\* followed by the channelStr of each channel, in the order given, joined by
\* single commas, with no leading and no trailing comma.
C1_AutoscaleCommand ==
    (/\ op = "setupAutoscaleOLD"
     /\ arg # None
     /\ Len(Entries(arg)) <= 5
     /\ AllValid(model, arg))
    => /\ exc = NoException
       /\ trace = <<_instWrite(AUToscaleText \o JoinComma(ChannelNames(Entries(arg))))>>

C1_Witness ==
    /\ op = "setupAutoscaleOLD"
    /\ arg = ChanList(<<"3", "1", "3">>)
    /\ Len(trace) = 1
    /\ trace[1].cmd = AUToscaleText \o <<"C","H","A","N","3",",","C","H","A","N","1",",",
                                         "C","H","A","N","3">>

\* C2: a setupAutoscaleOLD call with a list of more than 5 entries raises
\* ValueError and writes nothing, whatever the entries and whatever the
\* default channel was.
C2_TooManyRaises ==
    (/\ op = "setupAutoscaleOLD"
     /\ arg # None
     /\ arg.kind = "list"
     /\ Len(arg.chans) > 5)
    => /\ exc.type = "ValueError"
       /\ trace = <<>>

C2_Witness ==
    /\ op = "setupAutoscaleOLD"
    /\ arg = ChanList(<<"1", "1", "1", "1", "1", "1">>)
    /\ exc = ValueError(<<"TooMany">>)
    /\ trace = <<>>

\* C3: on every model a setupAutoscale call that raises the validation
\* error has sent no command at that moment.
C3_RaisesBeforeAnyCommand ==
    (op = "setupAutoscale" /\ exc.type = "ValueError") => trace = <<>>

C10_Step ==
    (op' = "setupAutoscaleOLD") =>
        /\ (arg' # None => channel' = arg')
        /\ (arg' = None =>
              /\ channel' = channel
              /\ (TooMany(Entries(channel)) \/ ~AllValid(model, channel)
                    => exc'.type = "ValueError" /\ trace' = <<>>)
              /\ (~TooMany(Entries(channel)) /\ AllValid(model, channel)
                    => /\ exc' = NoException
                       /\ trace' = <<_instWrite(AUToscaleText
                                        \o JoinComma(ChannelNames(Entries(channel))))>>))
        /\ (op = "setupAutoscaleOLD" /\ exc # NoException /\ arg' = None
              => exc' = exc /\ trace' = <<>>)

C10_DefaultChannel == [][C10_Step]_vars

C10_Witness ==
    /\ op = "setupAutoscaleOLD"
    /\ arg = None
    /\ channel = ChanList(<<"1", "9">>)
    /\ exc = ValueError(<<"Invalid", "9">>)
    /\ trace = <<>>

(***************************************************************************)
(* Properties of the statistics calls.  What a field text denotes is       *)
(* written down here by hand, apart from the conversions of the model.     *)
(***************************************************************************)
Denotes(text) ==
    CASE text = T_1p0   -> Float(1, 0)
      [] text = T_0p5   -> Float(5, -1)
      [] text = T_1p5   -> Float(15, -1)
      [] text = T_0p01  -> Float(1, -2)
      [] text = T_100   -> Float(1, 2)
      [] text = T_100p0 -> Float(1, 2)
      [] text = T_1E3   -> Float(1, 3)
      [] text = T_Over  -> Float(99, 36)
      [] text = T_m25   -> Float(-25, -2)
      [] text = T_p5    -> Float(5, -1)
      [] text = T_2p    -> Float(2, 0)
      [] text = T_3     -> Float(3, 0)
      [] text = T_m0    -> Float(0, 0)
      [] text = T_s0p5  -> Float(5, -1)
      [] text = T_7nl   -> Float(7, 0)

\* the texts that are numbers
NumericTexts == {T_1p0, T_0p5, T_1p5, T_0p01, T_100, T_100p0, T_1E3, T_Over, T_m25, T_p5,
                 T_2p, T_3, T_m0, T_s0p5, T_7nl}

\* the texts that are whole numbers written without point or exponent
PlainIntTexts == {T_100, T_3, T_m0, T_7nl}

\* the whole number a count text stands for, a fraction cut off
CountDenotes(text) ==
    CASE text = T_100   -> PyInt(1, 2)
      [] text = T_100p0 -> PyInt(1, 2)
      [] text = T_7nl   -> PyInt(7, 0)
      [] text = T_1p5   -> PyInt(1, 0)
      [] text = T_3     -> PyInt(3, 0)
      [] text = T_m0    -> PyInt(0, 0)

NGroups == Len(statFlat) \div 7

\* group k of the reply, k = 0, 1, ...
Group(k) == SubSeq(statFlat, 7 * k + 1, 7 * k + 7)

\* the positions of the reply that hold numbers, and those that hold counts
NumericPositions == {i \in 1..Len(statFlat) : i % 7 # 1}

CountPositions == {i \in 1..Len(statFlat) : i % 7 = 0}

ExpectedRecord(g) ==
    [label |-> g[1],
     CURR  |-> Denotes(g[2]),
     MIN   |-> Denotes(g[3]),
     MAX   |-> Denotes(g[4]),
     MEAN  |-> Denotes(g[5]),
     STDD  |-> Denotes(g[6]),
     COUN  |-> CountDenotes(g[7])]

ExpectedRecords == PyList([k \in 1..NGroups |-> ExpectedRecord(Group(k - 1))])

\* a reply of whole groups whose numeric fields are all numbers
WholeNumericReply ==
    /\ Len(statFlat) % 7 = 0
    /\ \A i \in NumericPositions : statFlat[i] \in NumericTexts

\* the statement of C4 as first made: every reply of N*7 fields whose
\* fields 1..6 of each group are numeric text gives exactly N records,
\* record k built from fields 7k..7k+6, on MSOX3000 and on UXR.
C4_AsStated ==
    (op = "measureStatistics" /\ WholeNumericReply)
    => (exc = NoException /\ ret = ExpectedRecords)

\* C4: for every reply of exactly N*7 fields (N >= 0) whose fields 1..5 of
\* each group are numeric text and whose field 6 is plain integer text on
\* MSOX3000, numeric text on UXR, measureStatistics returns exactly N
\* records, record k built from fields 7k..7k+6 in order: the label
\* unchanged, CURR, MIN, MAX, MEAN, STDD as floats, COUN as an int (on UXR
\* with a fraction cut off); an empty reply gives an empty list.
C4_Records ==
    (/\ op = "measureStatistics"
     /\ WholeNumericReply
     /\ (model = "MSOX3000" => \A i \in CountPositions : statFlat[i] \in PlainIntTexts))
    => (exc = NoException /\ ret = ExpectedRecords)

C4_Witness ==
    /\ op = "measureStatistics"
    /\ model = "MSOX3000"
    /\ statFlat = GroupNewline \o GroupPlain
    /\ exc = NoException
    /\ Len(ret.items) = 2
    /\ ret.items[1].MAX = Float(5, -1)
    /\ ret.items[2].COUN = PyInt(100, 0)

\* the statement of C7 as first made: on MSOX3000 and on UXR each
\* measureStatistics call writes 'SYSTem:MENU MEASure', then
\* 'MEASure:STATistics:DISPlay ON', and only then requests the statistics.
C7_AsStated ==
    op = "measureStatistics"
    => trace = <<_instWrite(MenuText), _instWrite(StatDisplayText), _measureStatisticsEvent>>

\* C7: on MSOX3000 each measureStatistics call writes 'SYSTem:MENU MEASure',
\* then 'MEASure:STATistics:DISPlay ON', and only after both requests the
\* statistics from _measureStatistics; on UXR and its subclasses the call
\* writes nothing and only requests the statistics.
C7_DisplayThenRequest ==
    op = "measureStatistics"
    => IF model = "MSOX3000"
       THEN trace = <<_instWrite(MenuText), _instWrite(StatDisplayText),
                      _measureStatisticsEvent>>
       ELSE trace = <<_measureStatisticsEvent>>

C7_Witness ==
    /\ op = "measureStatistics"
    /\ model = "MSOX3000"
    /\ Len(trace) = 3
    /\ trace[3] = _measureStatisticsEvent
    /\ statFlat = GroupPlain

\* C8: on a reply of N*7 otherwise well-formed fields in which a count is
\* '100.0', UXR returns N records with COUN = 100 there, and MSOX3000 raises
\* a conversion error and returns no records; on a well-formed reply whose
\* counts are all plain integer text both return the same records.
C8_CountCast ==
    (/\ op = "measureStatistics"
     /\ WholeNumericReply
     /\ \A i \in CountPositions : statFlat[i] \in PlainIntTexts \cup {T_100p0})
    => /\ (\E i \in CountPositions : statFlat[i] = T_100p0)
            => IF model \in UXRModels
               THEN /\ exc = NoException
                    /\ Len(ret.items) = NGroups
                    /\ \A k \in 1..NGroups :
                         statFlat[7 * k] = T_100p0 => ret.items[k].COUN = PyInt(100, 0)
               ELSE /\ exc = ValueError(T_100p0)
                    /\ ret = None
       /\ (\A i \in CountPositions : statFlat[i] \in PlainIntTexts)
            => (exc = NoException /\ ret = ExpectedRecords)

C8_Witness ==
    /\ op = "measureStatistics"
    /\ model = "UXR"
    /\ statFlat = GroupPlain \o GroupFloatCount
    /\ exc = NoException
    /\ Len(ret.items) = 2
    /\ ret.items[2].COUN = PyInt(100, 0)

\* a reply with a short trailing group, or with text that is no number in
\* a numeric position
Malformed ==
    \/ Len(statFlat) % 7 # 0
    \/ \E i \in NumericPositions : statFlat[i] \notin NumericTexts

\* the statement of C9 as first made: every malformed or short reply ends
\* the call in a numeric conversion error, and no record list is returned.
C9_AsStated ==
    (op = "measureStatistics" /\ Malformed)
    => (exc.type = "ValueError" /\ ret = None)

\* the numeric positions of the reply filled up to whole groups
PaddedPositions == {i \in 1..(7 * ((Len(statFlat) + 6) \div 7)) : i % 7 # 1}

\* position i cannot be read: the field is missing, or the conversion of
\* the model rejects its text
Faulty(i) ==
    \/ i > Len(statFlat)
    \/ statFlat[i] \notin NumericTexts
    \/ (model = "MSOX3000" /\ i % 7 = 0 /\ statFlat[i] \notin PlainIntTexts)

FirstFaulty == CHOOSE i \in PaddedPositions :
                   Faulty(i) /\ \A j \in PaddedPositions : Faulty(j) => i <= j

\* C9: every malformed or short reply ends the call in an exception and no
\* record list is returned, not even the records of the groups before the
\* bad one: the exception is ValueError when the first position that cannot
\* be read holds text the conversion rejects, and IndexError when that
\* position is a field missing from the short trailing group.
C9_MalformedRaises ==
    (op = "measureStatistics" /\ Malformed)
    => /\ ret = None
       /\ exc = IF FirstFaulty > Len(statFlat) THEN IndexError
                ELSE ValueError(statFlat[FirstFaulty])

C9_Witness ==
    /\ op = "measureStatistics"
    /\ statFlat = GroupPlain \o SubSeq(GroupNewline, 1, 3)
    /\ exc = IndexError
    /\ ret = None

(***************************************************************************)
(* Properties of polishOLD.                                                *)
(***************************************************************************)
\* the statement of C5 as first made: the sentinel if and only if the value
\* is at or above Keysight.OverRange; below it, for every measure, a
\* quantity annotated with units.
C5_AsStated ==
    op = "polishOLD"
    => /\ (ret = Sentinel <=> arg.value \in AtOrAboveValues)
       /\ (arg.value \in BelowValues
             => ret.type = "Quantity" /\ ret.value = arg.value /\ ret.units # "")

\* C5: polishOLD returns the sentinel '------' if and only if the value is
\* at or above Keysight.OverRange, the threshold included; for every value
\* below it and every measure it returns a numeric quantity of that value,
\* never the sentinel: with the units of the measurement when its name is
\* known, without units when the name is unknown or None.
C5_Sentinel ==
    op = "polishOLD"
    => /\ (ret = Sentinel <=> arg.value \in AtOrAboveValues)
       /\ (arg.value \in BelowValues
             => /\ ret.type = "Quantity"
                /\ ret.value = arg.value
                /\ ret.units = (IF arg.measure = Name("Frequency") THEN "Hz"
                                ELSE IF arg.measure = Name("Period") THEN "s"
                                ELSE ""))

C5_Witness ==
    /\ op = "polishOLD"
    /\ arg.value = OverRange
    /\ arg.measure = None
    /\ ret = Sentinel

====
